---- MODULE Spec2Model ----
(***************************************************************************)
(* HTTP CONNECT proxy negotiation (proxy/http.c).                          *)
(*                                                                         *)
(* The negotiator is a coroutine: proxy_http_process_queue is re-entered   *)
(* by its caller and resumes at the line stored in s->crLine.  Bytes are   *)
(* modelled as one-character strings, byte strings (strbuf, bufchain) as   *)
(* sequences of them.                                                      *)
(***************************************************************************)
EXTENDS Integers, Sequences, FiniteSets, TLC

Chars(str) == [i \in 1..Len(str) |-> SubSeq(str, i, i)]

CR == "\r"
LF == "\n"
SP == " "
TAB == "\t"
CRLF == <<CR, LF>>

Digits == Chars("0123456789")
UpperCase == Chars("ABCDEFGHIJKLMNOPQRSTUVWXYZ")
LowerCase == Chars("abcdefghijklmnopqrstuvwxyz")

IndexOf(c, seq) == IF \E i \in 1..Len(seq) : seq[i] = c
                   THEN CHOOSE i \in 1..Len(seq) : seq[i] = c
                   ELSE 0

IsDigit(c) == IndexOf(c, Digits) > 0
DigitVal(c) == IndexOf(c, Digits) - 1

(* tolower(), as stricmp applies it to each byte *)
ToLower(c) == IF IndexOf(c, UpperCase) > 0 THEN LowerCase[IndexOf(c, UpperCase)] ELSE c

stricmp_eq(a, b) ==
    /\ Len(a) = Len(b)
    /\ \A i \in 1..Len(a) : ToLower(a[i]) = ToLower(b[i])

(* isspace() of the C locale, as sscanf and strtoumax use it *)
IsSpace(c) == c \in {SP, TAB, LF, CR, "\f"}

(***************************************************************************)
(* strbuf_chomp: remove one trailing byte if it equals c.                  *)
(***************************************************************************)
strbuf_chomp(buf, c) ==
    IF Len(buf) > 0 /\ buf[Len(buf)] = c THEN SubSeq(buf, 1, Len(buf) - 1) ELSE buf

LineDone(input, output) ==
    [ok |-> TRUE, hung |-> FALSE, input |-> input,
     output |-> strbuf_chomp(strbuf_chomp(output, LF), CR)]

(***************************************************************************)
(* read_line.  Each evaluation is one iteration of the while loop.  In     *)
(* header mode, when the accumulated line ends in a newline and the byte   *)
(* fetched is a space or a tab, the iteration neither consumes the byte    *)
(* nor leaves the loop: the next iteration starts in the same state, so    *)
(* the loop never ends (hung).                                             *)
(***************************************************************************)
RECURSIVE read_line(_, _, _)
read_line(input, output, is_header) ==
    IF input = <<>>
    THEN [ok |-> FALSE, hung |-> FALSE, input |-> input, output |-> output]
    ELSE LET c == Head(input) IN
         IF is_header /\ Len(output) > 0 /\ output[Len(output)] = LF
         THEN IF c # SP /\ c # TAB
              THEN LineDone(input, output)
              ELSE [ok |-> FALSE, hung |-> TRUE, input |-> input, output |-> output]
         ELSE LET out2 == Append(output, c)
                  in2 == Tail(input)
              IN IF ~is_header /\ Len(out2) > 0 /\ out2[Len(out2)] = LF
                 THEN LineDone(in2, out2)
                 ELSE read_line(in2, out2, is_header)

is_whitespace(c) == c \in {SP, TAB, LF}

is_separator(c) ==
    c \in {"(", ")", "<", ">", "@", ",", ";", ":", "\\", "\"",
           "/", "[", "]", "?", "=", "{", "}"}

RECURSIVE SkipWhitespace(_, _)
SkipWhitespace(str, pos) ==
    IF pos < Len(str) /\ is_whitespace(str[pos + 1])
    THEN SkipWhitespace(str, pos + 1)
    ELSE pos

RECURSIVE TokenEnd(_, _)
TokenEnd(str, pos) ==
    IF pos < Len(str) /\ ~is_whitespace(str[pos + 1]) /\ ~is_separator(str[pos + 1])
    THEN TokenEnd(str, pos + 1)
    ELSE pos

(***************************************************************************)
(* get_token, get_separator: positions are 0-based offsets as in the C.    *)
(* The result carries the new header_pos and token; both are unchanged     *)
(* when the call fails.                                                    *)
(***************************************************************************)
get_token_at(header, header_pos, token, pos) ==
    IF pos = Len(header) THEN [ok |-> FALSE, header_pos |-> header_pos, token |-> token]
    ELSE IF is_separator(header[pos + 1])
    THEN [ok |-> FALSE, header_pos |-> header_pos, token |-> token]
    ELSE [ok |-> TRUE, header_pos |-> TokenEnd(header, pos),
          token |-> SubSeq(header, pos + 1, TokenEnd(header, pos))]

get_token(header, header_pos, token) ==
    get_token_at(header, header_pos, token, SkipWhitespace(header, header_pos))

get_separator_at(header, header_pos, sep, pos) ==
    IF pos = Len(header) THEN [ok |-> FALSE, header_pos |-> header_pos]
    ELSE IF header[pos + 1] # sep THEN [ok |-> FALSE, header_pos |-> header_pos]
    ELSE [ok |-> TRUE, header_pos |-> pos + 1]

get_separator(header, header_pos, sep) ==
    get_separator_at(header, header_pos, sep, SkipWhitespace(header, header_pos))

(***************************************************************************)
(* The pieces of sscanf(response, "HTTP/%d.%d %n%d", ...).  Positions are  *)
(* 0-based offsets into the string.                                        *)
(***************************************************************************)
RECURSIVE SkipSpace(_, _)
SkipSpace(str, pos) ==
    IF pos < Len(str) /\ IsSpace(str[pos + 1]) THEN SkipSpace(str, pos + 1) ELSE pos

RECURSIVE DigitsEnd(_, _)
DigitsEnd(str, pos) ==
    IF pos < Len(str) /\ IsDigit(str[pos + 1]) THEN DigitsEnd(str, pos + 1) ELSE pos

RECURSIVE DecValue(_)
DecValue(ds) ==
    IF ds = <<>> THEN 0
    ELSE 10 * DecValue(SubSeq(ds, 1, Len(ds) - 1)) + DigitVal(ds[Len(ds)])

(* one %d conversion: leading white space, an optional sign, digits *)
ScanDigits(str, pos, from, neg) ==
    IF DigitsEnd(str, from) = from THEN [ok |-> FALSE, val |-> 0, pos |-> pos]
    ELSE [ok |-> TRUE,
          val |-> (IF neg THEN -1 ELSE 1) * DecValue(SubSeq(str, from + 1, DigitsEnd(str, from))),
          pos |-> DigitsEnd(str, from)]

ScanSign(str, pos, p1) ==
    IF p1 < Len(str) /\ str[p1 + 1] \in {"+", "-"}
    THEN ScanDigits(str, pos, p1 + 1, str[p1 + 1] = "-")
    ELSE ScanDigits(str, pos, p1, FALSE)

ScanInt(str, pos) == ScanSign(str, pos, SkipSpace(str, pos))

HttpSlash == Chars("HTTP/")

(***************************************************************************)
(* sscanf of the status line.  n_scanned counts the %d conversions that    *)
(* succeeded (%n is not counted); http_status_pos and http_status keep     *)
(* their old values when their conversion is not reached.                  *)
(***************************************************************************)
Scanned(n, maj, min, pos, status) ==
    [n_scanned |-> n, maj_ver |-> maj, min_ver |-> min,
     http_status_pos |-> pos, http_status |-> status]

ScanStatus(maj, min, npos, st, old_status) ==
    IF st.ok THEN Scanned(3, maj.val, min.val, npos, st.val)
    ELSE Scanned(2, maj.val, min.val, npos, old_status)

ScanAfterMinor(str, maj, min, npos, old_pos, old_status) ==
    IF ~min.ok THEN Scanned(1, maj.val, 0, old_pos, old_status)
    ELSE ScanStatus(maj, min, npos, ScanInt(str, npos), old_status)

ScanMinor(str, maj, min, old_pos, old_status) ==
    ScanAfterMinor(str, maj, min, SkipSpace(str, min.pos), old_pos, old_status)

ScanAfterMajor(str, maj, old_pos, old_status) ==
    IF ~maj.ok THEN Scanned(0, 0, 0, old_pos, old_status)
    ELSE IF ~(maj.pos < Len(str) /\ str[maj.pos + 1] = ".")
    THEN Scanned(1, maj.val, 0, old_pos, old_status)
    ELSE ScanMinor(str, maj, ScanInt(str, maj.pos + 1), old_pos, old_status)

ScanStatusLine(str, old_pos, old_status) ==
    IF ~(Len(str) >= 5 /\ SubSeq(str, 1, 5) = HttpSlash)
    THEN Scanned(0, 0, 0, old_pos, old_status)
    ELSE ScanAfterMajor(str, ScanInt(str, 5), old_pos, old_status)

(* the condition of line 235, as written *)
PreHttp11(maj_ver, min_ver) == maj_ver < 1 /\ (maj_ver = 1 /\ min_ver < 1)

(***************************************************************************)
(* strtoumax(token, NULL, 10): leading white space, an optional '+',       *)
(* then the longest run of digits; 0 when there is none.  (A '-' sign      *)
(* negates modulo 2^64; no header of the modelled streams carries one.)    *)
(***************************************************************************)
strtoumax_from(str, p1) ==
    IF p1 < Len(str) /\ str[p1 + 1] = "+"
    THEN DecValue(SubSeq(str, p1 + 2, DigitsEnd(str, p1 + 1)))
    ELSE DecValue(SubSeq(str, p1 + 1, DigitsEnd(str, p1)))

strtoumax(str) == strtoumax_from(str, SkipSpace(str, 0))

(***************************************************************************)
(* HTTP_HEADER_LIST / CHECK_HEADER: the header kind of a field name.  The  *)
(* checks run in list order and a later match overwrites an earlier one;   *)
(* the names are distinct, so at most one matches.                         *)
(***************************************************************************)
HeaderKind(token) ==
    IF stricmp_eq(token, Chars("Proxy-Authenticate")) THEN "HDR_PROXY_AUTHENTICATE"
    ELSE IF stricmp_eq(token, Chars("Content-Length")) THEN "HDR_CONTENT_LENGTH"
    ELSE IF stricmp_eq(token, Chars("Connection")) THEN "HDR_CONNECTION"
    ELSE "HDR_UNKNOWN"

(***************************************************************************)
(* Byte values (ASCII) of the characters credentials are made of: digits,  *)
(* letters and the ':' that joins username and password.                   *)
(***************************************************************************)
Ord(c) ==
    IF IndexOf(c, Digits) > 0 THEN 47 + IndexOf(c, Digits)
    ELSE IF IndexOf(c, UpperCase) > 0 THEN 64 + IndexOf(c, UpperCase)
    ELSE IF IndexOf(c, LowerCase) > 0 THEN 96 + IndexOf(c, LowerCase)
    ELSE IF c = ":" THEN 58
    ELSE 0

Base64Alphabet ==
    Chars("ABCDEFGHIJKLMNOPQRSTUVWXYZabcdefghijklmnopqrstuvwxyz0123456789+/")

(***************************************************************************)
(* base64_encode_atom(data, n, out): n in 1..3 input bytes give 4 output   *)
(* characters, '=' padding the groups the input does not reach.            *)
(***************************************************************************)
base64_encode_atom(data) ==
    LET n == Len(data)
        word == Ord(data[1]) * 65536
                + (IF n > 1 THEN Ord(data[2]) * 256 ELSE 0)
                + (IF n > 2 THEN Ord(data[3]) ELSE 0)
    IN << Base64Alphabet[((word \div 262144) % 64) + 1],
          Base64Alphabet[((word \div 4096) % 64) + 1],
          IF n > 1 THEN Base64Alphabet[((word \div 64) % 64) + 1] ELSE "=",
          IF n > 2 THEN Base64Alphabet[(word % 64) + 1] ELSE "=" >>

(* the loop of lines 196-200: one atom per 3 input bytes *)
RECURSIVE Base64Encode(_)
Base64Encode(data) ==
    IF data = <<>> THEN <<>>
    ELSE LET k == IF Len(data) > 3 THEN 3 ELSE Len(data)
         IN base64_encode_atom(SubSeq(data, 1, k))
            \o Base64Encode(SubSeq(data, k + 1, Len(data)))

(* the %d directive of put_fmt, for a non-negative int *)
RECURSIVE FormatDec(_)
FormatDec(n) ==
    IF n < 10 THEN <<Digits[n + 1]>>
    ELSE Append(FormatDec(n \div 10), Digits[(n % 10) + 1])

(* the destination the tunnel is asked for: sk_getaddr's text and remote_port *)
remote_addr == Chars("h")
remote_port == 80

(* lines 174-177 *)
RequestPrefix ==
    Chars("CONNECT ") \o remote_addr \o <<":">> \o FormatDec(remote_port)
        \o Chars(" HTTP/1.1") \o CRLF
    \o Chars("Host: ") \o remote_addr \o <<":">> \o FormatDec(remote_port) \o CRLF

AuthLiteral == Chars("Proxy-Authorization: Basic ")

(* lines 188-203 *)
AuthHeader(username, password) ==
    AuthLiteral \o Base64Encode(username \o <<":">> \o password) \o CRLF

(***************************************************************************)
(* State.                                                                  *)
(*   s      the HttpProxyNegotiator (lines 44-57)                          *)
(*   pn     the ProxyNegotiator part the function uses: output, itr and    *)
(*          the results done, aborted, error                               *)
(*   input  pn->input, the bytes received and not yet consumed             *)
(*   conf   CONF_proxy_username and CONF_proxy_password                    *)
(*   sent   every byte the proxy has sent so far (consumed or not)         *)
(*   hist   what has happened: requests emitted, decisions made, bytes     *)
(*          consumed, prompts created and answered                         *)
(*   idle   invocations in a row that found nothing to do                  *)
(***************************************************************************)
VARIABLES s, pn, input, conf, sent, hist, idle

vars == <<s, pn, input, conf, sent, hist, idle>>

NoError == [msg |-> "", arg |-> <<>>]
NoPrompts == [name |-> "", to_server |-> FALSE, from_server |-> FALSE, prompts |-> <<>>]

(* proxy_http_new: memset 0 and five empty strbufs *)
NewNegotiator ==
    [crLine |-> 0, response |-> <<>>, header |-> <<>>, token |-> <<>>,
     http_status_pos |-> 0, header_pos |-> 0,
     username |-> <<>>, password |-> <<>>,
     http_status |-> 0, connection_close |-> FALSE,
     tried_no_auth |-> FALSE, try_auth_from_conf |-> FALSE,
     prompts |-> NoPrompts, username_prompt_index |-> 0, password_prompt_index |-> 0,
     content_length |-> 0]

NoHistory ==
    [consumed |-> 0, hung |-> FALSE, reqs |-> <<>>, decs |-> <<>>,
     resp_start |-> 0, hdr_end |-> 0, nhdr |-> 0,
     prompts_made |-> 0, answers |-> <<>>]

(* crStopV and crFinishV reset the resume point; crReturnV stores the line *)
crStop(m) == [m EXCEPT !.s.crLine = 0]
crReturn(m, line) == [m EXCEPT !.s.crLine = line]

Fail(m, msg, arg) == crStop([m EXCEPT !.pn.error = [msg |-> msg, arg |-> arg]])

MsgMalformed == "HTTP response was absent or malformed"
MsgUnsupported == "HTTP proxy asked for unsupported authentication type"
MsgClosed == "HTTP proxy closed connection after asking for authentication"
MsgNoAuth == "HTTP proxy requested authentication which we do not have"
MsgResponse == "HTTP response"

(* lines 162-165 *)
SetFromConf(m, u, p) ==
    [m EXCEPT !.s.username = u, !.s.password = p,
              !.s.try_auth_from_conf = IF Len(u) > 0 \/ Len(p) > 0 THEN TRUE ELSE @]

Begin(m) ==
    SetFromConf(m, m.s.username \o m.conf.proxy_username,
                   m.s.password \o m.conf.proxy_password)

(* SendsAuth without the tried_no_auth test of line 186 *)
SendsAuthFromStart(st) == Len(st.username) > 0 \/ Len(st.password) > 0

(* lines 186-187: does this request carry a Proxy-Authorization header? *)
SendsAuth(st) == st.tried_no_auth /\ (Len(st.username) > 0 \/ Len(st.password) > 0)

(* lines 171-212: the text of one request *)
RequestText(st) ==
    RequestPrefix
    \o (IF SendsAuth(st) THEN AuthHeader(st.username, st.password) ELSE <<>>)
    \o CRLF

Emit(m, req) ==
    [m EXCEPT !.pn.output = @ \o req,
              !.s.tried_no_auth = TRUE,
              !.s.crLine = 213,
              !.hist.reqs = Append(@, [from |-> Len(m.pn.output),
                                       to |-> Len(m.pn.output) + Len(req),
                                       username |-> m.s.username,
                                       password |-> m.s.password,
                                       answers |-> Len(m.hist.answers),
                                       prompts |-> m.hist.prompts_made])]

(* SendRequest that goes round the loop once more before returning *)
SendRequestTwice(m) == Emit(Emit(m, RequestText(m.s)), RequestText(m.s))

(* lines 171-213: append one request to the output and return to the caller *)
SendRequest(m) == Emit(m, RequestText(m.s))

UsernamePrompt == [prompt |-> "Proxy username: ", echo |-> TRUE, result |-> <<>>]
PasswordPrompt == [prompt |-> "Proxy password: ", echo |-> FALSE, result |-> <<>>]

(* MakePrompts that asks for the username whether or not one is held *)
MakePromptsAlwaysBoth(m) ==
    [m EXCEPT !.s.prompts =
                  [name |-> "HTTP proxy authentication", to_server |-> TRUE,
                   from_server |-> FALSE,
                   prompts |-> <<UsernamePrompt, PasswordPrompt>>],
              !.s.username_prompt_index = 0,
              !.s.password_prompt_index = 1,
              !.hist.prompts_made = @ + 1]

(* lines 334-346: build the prompt set *)
MakePrompts(m) ==
    [m EXCEPT !.s.prompts =
                  [name |-> "HTTP proxy authentication", to_server |-> TRUE,
                   from_server |-> FALSE,
                   prompts |-> IF Len(m.s.username) = 0
                               THEN <<UsernamePrompt, PasswordPrompt>>
                               ELSE <<PasswordPrompt>>],
              !.s.username_prompt_index = IF Len(m.s.username) = 0 THEN 0 ELSE -1,
              !.s.password_prompt_index = IF Len(m.s.username) = 0 THEN 1 ELSE 0,
              !.hist.prompts_made = @ + 1]

(* the seat fills in the result of each prompt, in order *)
FillPrompts(p, answers) ==
    [p EXCEPT !.prompts = [i \in 1..Len(p.prompts) |->
                              [p.prompts[i] EXCEPT !.result = answers[i]]]]

(* StoreResults without the strbuf_clear of lines 361 and 367 *)
StoreResultsAppending(m, p) ==
    [m EXCEPT !.s.username = IF m.s.username_prompt_index # -1
                             THEN @ \o p.prompts[m.s.username_prompt_index + 1].result
                             ELSE @,
              !.s.password = @ \o p.prompts[m.s.password_prompt_index + 1].result,
              !.s.prompts = NoPrompts,
              !.hist.answers = Append(@, m.pr.answers)]

(* lines 360-373: take the results over, free the prompts *)
StoreResults(m, p) ==
    [m EXCEPT !.s.username = IF m.s.username_prompt_index # -1
                             THEN p.prompts[m.s.username_prompt_index + 1].result
                             ELSE @,
              !.s.password = p.prompts[m.s.password_prompt_index + 1].result,
              !.s.prompts = NoPrompts,
              !.hist.answers = Append(@, m.pr.answers)]

TakeResults(m) == StoreResults(m, FillPrompts(m.s.prompts, m.pr.answers))

(* the prompt loop with a cancellation reported as an error *)
PromptLoopCancelAsError(m) ==
    IF m.pr.res > 0 THEN SendRequest(TakeResults(m))
    ELSE IF m.pr.res = 0
    THEN crStop([m EXCEPT !.pn.aborted = TRUE,
                          !.pn.error = [msg |-> "cancelled", arg |-> <<>>]])
    ELSE crReturn(m, 357)

(***************************************************************************)
(* lines 348-358.  m.pr is what seat_get_userpass_input returns to this    *)
(* invocation: res > 0 with the answers, res = 0 for a cancellation,       *)
(* res < 0 while the user has not answered.                                *)
(***************************************************************************)
PromptLoop(m) ==
    IF m.pr.res > 0 THEN SendRequest(TakeResults(m))
    ELSE IF m.pr.res = 0 THEN crStop([m EXCEPT !.pn.aborted = TRUE])
    ELSE crReturn(m, 357)

Decision(m, outcome) ==
    [m EXCEPT !.hist.decs = Append(@, [outcome |-> outcome,
                                       http_status |-> m.s.http_status,
                                       connection_close |-> m.s.connection_close,
                                       content_length |-> m.s.content_length,
                                       hdr_end |-> m.hist.hdr_end,
                                       consumed |-> m.hist.consumed,
                                       nhdr |-> m.hist.nhdr,
                                       resp_start |-> m.hist.resp_start,
                                       response |-> m.s.response,
                                       tried_conf |-> ~m.s.try_auth_from_conf,
                                       reqs |-> Len(m.hist.reqs)])]

IsSuccess(status) == 200 <= status /\ status < 300

(* the retry of lines 312-315 with try_auth_from_conf left set *)
RetryKeepingFlag(m) == SendRequest(Decision(m, "retry"))

(* lines 312-315: the configured credentials are tried once; "continue"    *)
(* goes round the loop to send the request again                           *)
RetryFromConf(m) ==
    SendRequest([Decision(m, "retry") EXCEPT !.s.try_auth_from_conf = FALSE])

(* lines 298-379: the decision by status code, after the body is discarded *)
Decide(m) ==
    IF IsSuccess(m.s.http_status)
    THEN crStop([Decision(m, "done") EXCEPT !.pn.done = TRUE])
    ELSE IF m.s.http_status = 407
    THEN IF m.s.connection_close THEN Fail(Decision(m, "closed"), MsgClosed, <<>>)
         ELSE IF m.s.try_auth_from_conf
         THEN RetryFromConf(m)
         ELSE IF ~m.pn.itr THEN Fail(Decision(m, "noauth"), MsgNoAuth, <<>>)
         ELSE PromptLoop(MakePrompts(Decision(m, "prompt")))
    ELSE Fail(Decision(m, "failure"), MsgResponse,
              SubSeq(m.s.response, m.s.http_status_pos + 1, Len(m.s.response)))

(* bufchain_try_consume: all n bytes or none *)
bufchain_try_consume(buf, n) ==
    IF Len(buf) >= n THEN [ok |-> TRUE, buf |-> SubSeq(buf, n + 1, Len(buf))]
    ELSE [ok |-> FALSE, buf |-> buf]

BodyRead(m, r) ==
    IF r.ok
    THEN Decide([m EXCEPT !.input = r.buf, !.hist.consumed = @ + m.s.content_length])
    ELSE crReturn(m, 295)

(* WaitBody that goes on with what there is of a body that is short *)
WaitBodyTakingAvailable(m) ==
    BodyRead(m, [ok |-> TRUE,
                 buf |-> IF Len(m.input) >= m.s.content_length
                         THEN SubSeq(m.input, m.s.content_length + 1, Len(m.input))
                         ELSE <<>>])

(* lines 295-296 *)
WaitBody(m) == BodyRead(m, bufchain_try_consume(m.input, m.s.content_length))

(* lines 268-291: the value of a recognised header *)
(* HeaderValue in which keep-alive does not take back an earlier close *)
HeaderValueCloseSticky(m, hdr, token) ==
    IF hdr = "HDR_CONTENT_LENGTH"
    THEN [m EXCEPT !.s.content_length = strtoumax(token)]
    ELSE IF hdr = "HDR_CONNECTION"
    THEN IF stricmp_eq(token, Chars("close"))
         THEN [m EXCEPT !.s.connection_close = TRUE]
         ELSE m
    ELSE IF stricmp_eq(token, Chars("Basic")) THEN m
         ELSE Fail(m, MsgUnsupported, token)

HeaderValue(m, hdr, token) ==
    IF hdr = "HDR_CONTENT_LENGTH"
    THEN [m EXCEPT !.s.content_length = strtoumax(token)]
    ELSE IF hdr = "HDR_CONNECTION"
    THEN IF stricmp_eq(token, Chars("close"))
         THEN [m EXCEPT !.s.connection_close = TRUE]
         ELSE IF stricmp_eq(token, Chars("keep-alive"))
         THEN [m EXCEPT !.s.connection_close = FALSE]
         ELSE m
    ELSE IF stricmp_eq(token, Chars("Basic")) THEN m
         ELSE Fail(m, MsgUnsupported, token)

HeaderAfterValue(m, hdr, t2) ==
    IF ~t2.ok THEN m
    ELSE HeaderValue([m EXCEPT !.s.token = t2.token, !.s.header_pos = t2.header_pos],
                     hdr, t2.token)

(* HeaderAfterSeparator that gives up on a header line without its ':' *)
HeaderAfterSeparatorStrict(m, hdr, sep) ==
    IF ~sep.ok THEN Fail([m EXCEPT !.s.header_pos = sep.header_pos], MsgMalformed, <<>>)
    ELSE IF hdr = "HDR_UNKNOWN" THEN [m EXCEPT !.s.header_pos = sep.header_pos]
    ELSE HeaderAfterValue([m EXCEPT !.s.header_pos = sep.header_pos], hdr,
                          get_token(m.s.header, sep.header_pos, m.s.token))

(* lines 265-281 *)
HeaderAfterSeparator(m, hdr, sep) ==
    IF ~sep.ok \/ hdr = "HDR_UNKNOWN" THEN [m EXCEPT !.s.header_pos = sep.header_pos]
    ELSE HeaderAfterValue([m EXCEPT !.s.header_pos = sep.header_pos], hdr,
                          get_token(m.s.header, sep.header_pos, m.s.token))

HeaderAfterName(m, t1) ==
    IF ~t1.ok THEN m
    ELSE HeaderAfterSeparator([m EXCEPT !.s.token = t1.token, !.s.header_pos = t1.header_pos],
                              HeaderKind(t1.token),
                              get_separator(m.s.header, t1.header_pos, ":"))

(***************************************************************************)
(* lines 247-291: the effect of one complete header line, s->header.       *)
(* `continue` in the do-while goes to the loop condition, so every path    *)
(* but the crStopV of line 289 ends at the test of line 292.               *)
(***************************************************************************)
HeaderEffect(m) ==
    HeaderAfterName([m EXCEPT !.s.header_pos = 0], get_token(m.s.header, 0, m.s.token))

(* the bytes a read_line took from the input *)
Consume(m, r) ==
    [m EXCEPT !.input = r.input, !.hist.consumed = @ + (Len(m.input) - Len(r.input))]

(***************************************************************************)
(* lines 244-292: the header loop.  HeaderLoop is the top of the do-while  *)
(* (line 245), WaitHeader the crMaybeWaitUntilV of line 246, which is      *)
(* also where a suspended call resumes.                                    *)
(***************************************************************************)
RECURSIVE WaitHeader(_)
HeaderLoop(m) == WaitHeader([m EXCEPT !.s.header = <<>>])

(* line 292 without the crStopV of line 289: the loop goes on after the    *)
(* error is recorded                                                       *)
HeaderNextAfterError(m) ==
    IF Len(m.s.header) > 0 THEN HeaderLoop(m)
    ELSE WaitBody([m EXCEPT !.hist.hdr_end = m.hist.consumed])

(* lines 289 and 292: stop on the error, else loop while the line is not   *)
(* empty                                                                   *)
HeaderNext(m) ==
    IF m.pn.error # NoError THEN m
    ELSE IF Len(m.s.header) > 0 THEN HeaderLoop(m)
    ELSE WaitBody([m EXCEPT !.hist.hdr_end = m.hist.consumed])

HeaderRead(m, r) ==
    IF r.hung THEN [m EXCEPT !.s.header = r.output, !.hist.hung = TRUE]
    ELSE IF ~r.ok THEN crReturn([m EXCEPT !.s.header = r.output], 246)
    ELSE HeaderNext(HeaderEffect([m EXCEPT !.s.header = r.output, !.hist.nhdr = @ + 1]))

WaitHeader(m) == HeaderRead(Consume(m, read_line(m.input, m.s.header, TRUE)),
                            read_line(m.input, m.s.header, TRUE))

(* lines 224-239: parse the status line *)
StatusParsed(m, sc) ==
    IF sc.n_scanned < 3
    THEN Fail([m EXCEPT !.s.http_status_pos = sc.http_status_pos,
                        !.s.http_status = sc.http_status],
              MsgMalformed, <<>>)
    ELSE HeaderLoop([m EXCEPT !.s.http_status_pos = sc.http_status_pos,
                              !.s.http_status = sc.http_status,
                              !.s.connection_close =
                                  IF PreHttp11(sc.maj_ver, sc.min_ver) THEN TRUE ELSE @])

ParseStatus(m) ==
    StatusParsed(m, ScanStatusLine(m.s.response, m.s.http_status_pos, m.s.http_status))

(* StatusRead that keeps no part of a line it could not finish *)
StatusReadLosingPartialLine(m, r) ==
    IF r.ok THEN ParseStatus([m EXCEPT !.s.response = r.output])
    ELSE crReturn(m, 223)

(* lines 222-233: the line is parsed once read_line has it whole *)
StatusRead(m, r) ==
    IF r.ok THEN ParseStatus([m EXCEPT !.s.response = r.output])
    ELSE crReturn([m EXCEPT !.s.response = r.output], 223)

(* line 223, also where a suspended call resumes *)
WaitStatus(m) == StatusRead(Consume(m, read_line(m.input, m.s.response, FALSE)),
                            read_line(m.input, m.s.response, FALSE))

(* StartResponse without the assignments of lines 215-216 *)
StartResponseKeepingFlags(m) ==
    WaitStatus([m EXCEPT !.s.response = <<>>,
                         !.hist.resp_start = m.hist.consumed, !.hist.nhdr = 0])

(* lines 215-222: the start of a round trip, where the call resumes after  *)
(* the crReturnV of line 213                                               *)
StartResponse(m) ==
    WaitStatus([m EXCEPT !.s.content_length = 0, !.s.connection_close = FALSE,
                         !.s.response = <<>>,
                         !.hist.resp_start = m.hist.consumed, !.hist.nhdr = 0])

(* the switch with the resume points of lines 223 and 246 placed before    *)
(* the strbuf_clear of lines 222 and 245                                   *)
ProcessQueueClearingOnResume(m) ==
    CASE m.s.crLine = 0 -> SendRequest(Begin(m))
      [] m.s.crLine = 213 -> StartResponse(m)
      [] m.s.crLine = 223 -> WaitStatus([m EXCEPT !.s.response = <<>>])
      [] m.s.crLine = 246 -> HeaderLoop(m)
      [] m.s.crLine = 295 -> WaitBody(m)
      [] m.s.crLine = 357 -> PromptLoop(m)

(* the switch with the resume point of line 357 placed before the prompts  *)
(* are built (line 334)                                                    *)
ProcessQueueRebuildingPrompts(m) ==
    CASE m.s.crLine = 0 -> SendRequest(Begin(m))
      [] m.s.crLine = 213 -> StartResponse(m)
      [] m.s.crLine = 223 -> WaitStatus(m)
      [] m.s.crLine = 246 -> WaitHeader(m)
      [] m.s.crLine = 295 -> WaitBody(m)
      [] m.s.crLine = 357 -> PromptLoop(MakePrompts(m))

(***************************************************************************)
(* proxy_http_process_queue: one invocation, from crBegin's switch on      *)
(* s->crLine to the next return.                                           *)
(***************************************************************************)
ProcessQueue(m) ==
    CASE m.s.crLine = 0 -> SendRequest(Begin(m))
      [] m.s.crLine = 213 -> StartResponse(m)
      [] m.s.crLine = 223 -> WaitStatus(m)
      [] m.s.crLine = 246 -> WaitHeader(m)
      [] m.s.crLine = 295 -> WaitBody(m)
      [] m.s.crLine = 357 -> PromptLoop(m)

(***************************************************************************)
(* The environment: what the proxy sends, how the transport cuts it into   *)
(* pieces, what the configuration holds and what the user answers.         *)
(***************************************************************************)
MaxIdle == 1
MaxChunk == 2

Line(str) == Chars(str) \o CRLF

StatusLines ==
    { Line("HTTP/1.1 200 K"), Line("HTTP/1.1 407 A"), Line("HTTP/1.0 407 A"),
      Line("HTTP/1.1 404 N"), Line("HTTP/1.1 40"), Line("HTTP/1.1 2000"),
      Line("HTTP/1.1"), Line("HTTP/1.1 x"), Line("HTP/1.1 200") }

OK200 == Line("HTTP/1.1 200 K")
Auth407 == Line("HTTP/1.1 407 A")
Old407 == Line("HTTP/1.0 407 A")

ConnClose == Line("Connection: close")
ConnKeep == Line("Connection: keep-alive")
ContentLength2 == Line("Content-Length: 2")
AuthBasic == Line("Proxy-Authenticate: Basic")
AuthDigest == Line("Proxy-Authenticate: Digest")
FoldedClose == Line("Connection:") \o Line(" close")
FoldedLength == Chars("Content-Length:") \o <<LF, TAB>> \o Line("2")

(* header lines that carry no body *)
PlainHeaders ==
    { ConnClose, ConnKeep, AuthBasic, AuthDigest, FoldedClose,
      Line("X: y"), Line("Connection close"), Line(": close"),
      Chars("CONNECTION: CLOSE") \o <<LF>>, Line("Content-Length: x"),
      Line("proxy-authenticate: basic"), Line("Connection: bye") }

HeaderBlocks ==
    {<<>>} \cup PlainHeaders
    \cup { ConnClose \o ConnKeep, ConnKeep \o ConnClose, AuthBasic \o ConnKeep,
           Line("X: y") \o AuthDigest \o ConnClose }

(* a declared body of two bytes, complete, starting with a space, or short *)
BodyBlocks ==
    { h \o CRLF \o b : h \in { ContentLength2, FoldedLength, ContentLength2 \o ConnKeep,
                               AuthDigest \o ContentLength2 },
                       b \in { Chars("ab"), Chars(" b") } }

F200 == OK200 \o CRLF
F407 == Auth407 \o CRLF
TunnelByte == Chars("S")

(* what may follow the first response on the same connection: the answers  *)
(* to the next requests, then the first byte of the tunnelled protocol     *)
FollowUps ==
    { F200 \o TunnelByte, F407 \o F200 \o TunnelByte, F407 \o F407 \o TunnelByte }

FirstResponses ==
    { st \o CRLF : st \in StatusLines }
    \cup { Auth407 \o h \o CRLF : h \in HeaderBlocks }
    \cup { OK200 \o h \o CRLF : h \in {ConnClose, AuthBasic, AuthDigest, FoldedClose} }
    \cup { Auth407 \o b : b \in BodyBlocks }
    \cup { st \o ContentLength2 \o CRLF \o b :
              st \in {OK200, Line("HTTP/1.1 404 N")}, b \in {Chars("ab"), Chars(" b")} }
    \cup { Old407 \o h \o CRLF : h \in {ConnKeep, ConnClose} }

Wires == { r1 \o f : r1 \in FirstResponses, f \in FollowUps }

IsPrefix(a, b) == Len(a) <= Len(b) /\ SubSeq(b, 1, Len(a)) = a

Continuations == { w \in Wires : IsPrefix(sent, w) }

(* the pieces the transport may hand over next: 1..MaxChunk bytes of a     *)
(* stream, or, when it has delivered nothing yet, a whole stream at once   *)
NextChunks ==
    UNION { { SubSeq(w, Len(sent) + 1, Len(sent) + k) :
                 k \in { j \in 1..(Len(w) - Len(sent)) : j <= MaxChunk \/ (sent = <<>> /\ j = Len(w)) } } :
            w \in Continuations }

Credentials == { <<>>, Chars("u") }
Secrets == { <<>>, Chars("p") }
Answers == { <<Chars("v"), Chars("q")>>, << <<>>, <<>> >> }

(* what seat_get_userpass_input may return to one invocation *)
SeatResults ==
    { [res |-> -1, answers |-> <<>>], [res |-> 0, answers |-> <<>>] }
    \cup { [res |-> 1, answers |-> a] : a \in Answers }

Init ==
    /\ s = NewNegotiator
    /\ \E itr \in BOOLEAN :
          pn = [done |-> FALSE, aborted |-> FALSE, error |-> NoError,
                output |-> <<>>, itr |-> itr]
    /\ input = <<>>
    /\ \E u \in Credentials, p \in Secrets :
          conf = [proxy_username |-> u, proxy_password |-> p]
    /\ sent = <<>>
    /\ hist = NoHistory
    /\ idle = 0

Terminal == pn.done \/ pn.aborted \/ pn.error # NoError

Machine(in, pr) == [s |-> s, pn |-> pn, input |-> in, conf |-> conf, hist |-> hist, pr |-> pr]

(* the caller stops calling once an outcome is reported *)
Callable == ~Terminal /\ ~hist.hung

Commit(m) ==
    /\ s' = m.s
    /\ pn' = m.pn
    /\ input' = m.input
    /\ hist' = m.hist

NoProgress(m) == m.s = s /\ m.pn = pn /\ m.input = input /\ m.hist = hist

(***************************************************************************)
(* Receive: the transport appends a piece to pn->input and calls the       *)
(* negotiator.                                                             *)
(***************************************************************************)
Receive(chunk, pr) ==
    /\ Callable
    /\ Commit(ProcessQueue(Machine(input \o chunk, pr)))
    /\ sent' = sent \o chunk
    /\ idle' = 0
    /\ UNCHANGED conf

Invoked(m) ==
    /\ NoProgress(m) => idle < MaxIdle
    /\ Commit(m)
    /\ idle' = IF NoProgress(m) THEN idle + 1 ELSE 0

(***************************************************************************)
(* Invoke: the caller calls the negotiator with no new input (at the       *)
(* start, after a write, or when the seat has something to say).           *)
(***************************************************************************)
Invoke(pr) ==
    /\ Callable
    /\ Invoked(ProcessQueue(Machine(input, pr)))
    /\ UNCHANGED <<conf, sent>>

Pending == [res |-> -1, answers |-> <<>>]

(* the seat is consulted exactly by the invocations that, with no answer   *)
(* yet, end suspended in the prompt loop; only those depend on its answer  *)
SeatChoices(in) ==
    IF ProcessQueue(Machine(in, Pending)).s.crLine = 357 THEN SeatResults ELSE {Pending}

Next ==
    \/ \E chunk \in NextChunks : \E pr \in SeatChoices(input \o chunk) : Receive(chunk, pr)
    \/ \E pr \in SeatChoices(input) : Invoke(pr)

Spec == Init /\ [][Next]_vars

(***************************************************************************)
(* Properties.                                                             *)
(***************************************************************************)
Contains(text, pat) ==
    \E k \in 0..(Len(text) - Len(pat)) : SubSeq(text, k + 1, k + Len(pat)) = pat

RequestBytes(i) == SubSeq(pn.output, hist.reqs[i].from + 1, hist.reqs[i].to)

HasAuthHeader(i) == Contains(RequestBytes(i), AuthLiteral)

(* the requests are the whole output, one after the other *)
RequestsTileOutput ==
    /\ \A i \in 1..Len(hist.reqs) :
          /\ hist.reqs[i].from = (IF i = 1 THEN 0 ELSE hist.reqs[i - 1].to)
          /\ IsPrefix(Chars("CONNECT "), RequestBytes(i))
    /\ Len(pn.output) = (IF hist.reqs = <<>> THEN 0 ELSE hist.reqs[Len(hist.reqs)].to)

(* C1: the first request of the output carries no Proxy-Authorization      *)
(* header, whatever the configuration holds; every later request carries   *)
(* "Proxy-Authorization: Basic" exactly when the username or the password  *)
(* is non-empty at the moment it is emitted.                               *)
C1_AuthOnlyAfterFirstRequest ==
    /\ RequestsTileOutput
    /\ \A i \in 1..Len(hist.reqs) :
          HasAuthHeader(i) <=>
              (i > 1 /\ (hist.reqs[i].username # <<>> \/ hist.reqs[i].password # <<>>))

(* a password is configured, the first request went out bare, the second   *)
(* carries it and the third, sent after the user answered with empty       *)
(* strings, does not                                                       *)
C1_Witness ==
    /\ conf.proxy_password # <<>>
    /\ Len(hist.reqs) >= 3
    /\ ~HasAuthHeader(1)
    /\ HasAuthHeader(2)
    /\ ~HasAuthHeader(3)

ConfHasCredentials == conf.proxy_username # <<>> \/ conf.proxy_password # <<>>

(* the negotiator has done all it can with what it was given *)
Settled == ~Callable \/ NoProgress(ProcessQueue(Machine(input, Pending)))

(* first responses that are a 407 on a connection that stays open *)
Open407 ==
    { Auth407 \o h \o CRLF : h \in {<<>>, ConnKeep, AuthBasic, AuthBasic \o ConnKeep} }
    \cup { Auth407 \o ContentLength2 \o CRLF \o Chars("ab") }

(* the whole of such a response and at least one byte more have arrived *)
Open407Received == \E r \in Open407 : IsPrefix(r, sent) /\ Len(sent) > Len(r)

RawResponse(d) == SubSeq(sent, d.resp_start + 1, d.consumed)

LowerAll(text) == [i \in 1..Len(text) |-> ToLower(text[i])]

(* C3: when the decision is made on a response whose status line is        *)
(* HTTP/1.0 with status 407 and that has no Connection header, the close   *)
(* flag is true and the outcome is the error for a 407 on a closing        *)
(* connection; no retry is emitted, even with untried configured           *)
(* credentials.                                                            *)
C3_Http10DefaultsToClose ==
    \A i \in 1..Len(hist.decs) :
        (/\ IsPrefix(Chars("HTTP/1.0 407"), hist.decs[i].response)
         /\ ~Contains(LowerAll(RawResponse(hist.decs[i])), Chars("connection")))
        => /\ hist.decs[i].connection_close
           /\ hist.decs[i].outcome = "closed"
           /\ Len(hist.reqs) = i

(* C4: every invocation of the negotiator returns: the loop of read_line   *)
(* takes a byte from the input or ends in each iteration, so no call       *)
(* loops for ever.                                                         *)
C4_EveryInvocationReturns == ~hist.hung

(***************************************************************************)
(* The reference run: the negotiator created afresh, given a byte string   *)
(* in one piece and called until a call changes nothing; the seat answers  *)
(* each prompt at once from the script.                                    *)
(***************************************************************************)
Stopped(m) == m.pn.done \/ m.pn.aborted \/ m.pn.error # NoError \/ m.hist.hung

SameMachine(a, b) == a.s = b.s /\ a.pn = b.pn /\ a.input = b.input /\ a.hist = b.hist

SeatFrom(m, script) ==
    IF m.s.crLine = 357 /\ Len(m.hist.answers) < Len(script)
    THEN script[Len(m.hist.answers) + 1]
    ELSE Pending

RECURSIVE RunOn(_, _)
RunStep(m, m2, script) == IF SameMachine(m, m2) THEN m ELSE RunOn(m2, script)

RunOn(m, script) ==
    IF Stopped(m) THEN m
    ELSE RunStep(m, ProcessQueue([m EXCEPT !.pr = SeatFrom(m, script)]), script)

(* what the seat has answered so far in this run *)
Script ==
    [i \in 1..Len(hist.answers) |-> [res |-> 1, answers |-> hist.answers[i]]]
    \o (IF pn.aborted THEN <<[res |-> 0, answers |-> <<>>]>> ELSE <<>>)

Reference(bytes) ==
    RunOn([s |-> NewNegotiator,
           pn |-> [done |-> FALSE, aborted |-> FALSE, error |-> NoError,
                   output |-> <<>>, itr |-> pn.itr],
           input |-> bytes, conf |-> conf, hist |-> NoHistory, pr |-> Pending],
          Script)

(* a call that never returns leaves no resume point to compare *)
Observed(m) ==
    [s |-> [m.s EXCEPT !.crLine = IF m.hist.hung THEN 0 ELSE @],
     pn |-> m.pn, input |-> m.input, hist |-> m.hist]

(* C7: chunking independence.  Once the negotiator has done all it can     *)
(* with the bytes received, its outcome, its output, the bytes it has      *)
(* consumed and every line it holds are those of the run that was given    *)
(* the same bytes in one piece, however the transport cut them up.         *)
C7_ChunkingIndependence ==
    Settled => Observed(Machine(input, Pending)) = Observed(Reference(sent))

(* suspended in the middle of the status line of the third response,     *)
(* after a retry and an answered prompt: the bytes did not come in one     *)
(* piece, and the part of the line read so far is held                     *)
C7_Witness ==
    /\ Settled
    /\ s.crLine = 223
    /\ Len(s.response) > MaxChunk
    /\ input = <<>>
    /\ Len(hist.decs) = 2
    /\ Len(hist.answers) = 1

(* a header block with its folds removed: a line break followed by a space *)
(* or a tab is dropped, the space or tab stays                              *)
RECURSIVE Unfold(_)
Unfold(b) ==
    IF b = <<>> THEN <<>>
    ELSE IF Len(b) >= 3 /\ b[1] = CR /\ b[2] = LF /\ b[3] \in {SP, TAB}
    THEN Unfold(SubSeq(b, 3, Len(b)))
    ELSE IF Len(b) >= 2 /\ b[1] = LF /\ b[2] \in {SP, TAB}
    THEN Unfold(Tail(b))
    ELSE <<Head(b)>> \o Unfold(Tail(b))

FoldedResponses ==
    { Auth407 \o FoldedClose \o CRLF, OK200 \o FoldedClose \o CRLF,
      Auth407 \o FoldedLength \o CRLF \o Chars("ab") }

(* what a run made of the responses it decided on *)
Effects(m) ==
    [decisions |-> [i \in 1..Len(m.hist.decs) |->
                       << m.hist.decs[i].outcome, m.hist.decs[i].content_length,
                          m.hist.decs[i].connection_close >>],
     error |-> m.pn.error, done |-> m.pn.done, hung |-> m.hist.hung]

(* C5: a header whose value is split by a fold is read as one header       *)
(* line: a response with a folded Connection or Content-Length header has  *)
(* the effect on content length, close flag and outcome of the same        *)
(* response with the header written on one line.                           *)
C5_FoldedHeaderIsOneLine ==
    \A f \in FoldedResponses :
        (IsPrefix(f, sent) /\ Len(sent) > Len(f) /\ Settled)
        => Effects(Machine(input, Pending))
           = Effects(Reference(Unfold(f) \o SubSeq(sent, Len(f) + 1, Len(sent))))

WaitingForInput == s.crLine \in {223, 246, 295}

(* C6: when the negotiator is suspended waiting for input (status line,    *)
(* header line or body) and is called again with no new byte, it stays     *)
(* suspended and changes nothing: not the input, not the output, not the   *)
(* lines, lengths and flags it holds, not its credentials.                 *)
C6_IdleInvocationChangesNothing ==
    [][(WaitingForInput /\ sent' = sent)
       => (s' = s /\ pn' = pn /\ input' = input /\ hist' = hist)]_vars

(* suspended in the middle of a header line, part of the line held, and    *)
(* called again as often as the bound allows with nothing new to read      *)
C6_Witness ==
    /\ idle = MaxIdle
    /\ s.crLine = 246
    /\ Len(s.header) > MaxChunk
    /\ s.header[Len(s.header)] # LF
    /\ input = <<>>

(* C8: a response that is exactly a 200 status line and the blank line     *)
(* that ends the headers, with nothing after it, ends in success after     *)
(* exactly one request.                                                    *)
C8_Bare200Succeeds ==
    (sent = F200 /\ Settled) => (pn.done /\ Len(hist.reqs) = 1)

(* the complete lines of a byte string, each with its line feed *)
RECURSIVE LinesFrom(_, _, _)
LinesFrom(bytes, start, k) ==
    IF k > Len(bytes) THEN <<>>
    ELSE IF bytes[k] = LF
    THEN <<SubSeq(bytes, start, k)>> \o LinesFrom(bytes, k + 1, k + 1)
    ELSE LinesFrom(bytes, start, k + 1)

CompleteLines(bytes) == LinesFrom(bytes, 1, 1)

Chomped(line) == strbuf_chomp(strbuf_chomp(line, LF), CR)

(* a Proxy-Authenticate header whose first value token is not Basic *)
ValueIsNotBasic(line, pos) ==
    /\ get_token(line, pos, <<>>).ok
    /\ ~stricmp_eq(get_token(line, pos, <<>>).token, Chars("Basic"))

NameIsProxyAuthenticate(line, t1) ==
    /\ t1.ok
    /\ stricmp_eq(t1.token, Chars("Proxy-Authenticate"))
    /\ get_separator(line, t1.header_pos, ":").ok
    /\ ValueIsNotBasic(line, get_separator(line, t1.header_pos, ":").header_pos)

UnsupportedAuthHeader(line) == NameIsProxyAuthenticate(line, get_token(line, 0, <<>>))

(* the lines of the current response consumed so far, as the proxy sent them *)
ConsumedLines == CompleteLines(SubSeq(sent, hist.resp_start + 1, hist.consumed))

PromptDecisions == { i \in 1..Len(hist.decs) : hist.decs[i].outcome = "prompt" }

UnsupportedFrame(lines) ==
    /\ ~pn.done /\ ~pn.aborted
    /\ hist.consumed > hist.resp_start
    /\ sent[hist.consumed] = LF
    /\ Len(lines) = 1 + hist.nhdr
    /\ UnsupportedAuthHeader(s.header)
    /\ s.header = Chomped(lines[Len(lines)])
    /\ pn.error.arg = get_token(s.header,
                                get_separator(s.header, get_token(s.header, 0, <<>>).header_pos,
                                              ":").header_pos, <<>>).token
    /\ Len(hist.decs) = Len(hist.reqs) - 1
    /\ hist.hdr_end <= hist.resp_start
    /\ s.prompts = NoPrompts
    /\ hist.prompts_made = Cardinality(PromptDecisions)

UnsupportedAtOnce(lines) ==
    \A i \in 2..Len(lines) :
        UnsupportedAuthHeader(Chomped(lines[i]))
        => /\ i = Len(lines)
           /\ \/ pn.error.msg = MsgUnsupported
              \/ hist.hung
              \/ s.crLine = 246 /\ s.header = lines[i]

(* C9: once a Proxy-Authenticate header whose first value token is not     *)
(* "Basic" (in any case) has been read, the negotiation is over with the   *)
(* unsupported-scheme error: that header is the last line consumed, no     *)
(* body byte is consumed, no decision is made, no request is emitted and   *)
(* no prompt is created, whatever the status, credentials and interactor.  *)
C9_UnsupportedSchemeEndsNegotiation ==
    /\ hist.decs = <<>> => UnsupportedAtOnce(ConsumedLines)
    /\ pn.error.msg = MsgUnsupported => UnsupportedFrame(ConsumedLines)

(* a 200 response and a 407 response alike: Digest is refused with         *)
(* credentials configured and an interactor present, and the header and    *)
(* the body that came after it are left unread                             *)
C9_Witness ==
    /\ pn.error.msg = MsgUnsupported
    /\ pn.error.arg = Chars("Digest")
    /\ ConfHasCredentials
    /\ pn.itr
    /\ IsPrefix(ContentLength2, input)
    /\ Len(hist.reqs) = 1

BlankLineEndsAt(k) ==
    /\ k >= 2
    /\ k <= Len(sent)
    /\ sent[k] = LF
    /\ \/ sent[k - 1] = LF
       \/ k >= 3 /\ sent[k - 1] = CR /\ sent[k - 2] = LF

(* C10: for every response, whatever its status, the decision is made      *)
(* only when exactly content_length bytes after the blank line have been   *)
(* consumed; while fewer are there the negotiator stays suspended, takes    *)
(* none of them and decides nothing; what is left in the input starts      *)
(* with the first byte after the body.                                     *)
C10_BodyDiscardedBeforeDecision ==
    /\ hist.consumed <= Len(sent)
    /\ input = SubSeq(sent, hist.consumed + 1, Len(sent))
    /\ \A i \in 1..Len(hist.decs) :
          /\ BlankLineEndsAt(hist.decs[i].hdr_end)
          /\ hist.decs[i].consumed = hist.decs[i].hdr_end + hist.decs[i].content_length
          /\ Contains(RawResponse(hist.decs[i]), ContentLength2)
             => hist.decs[i].content_length = 2
    /\ s.crLine = 295 =>
          /\ ~Terminal
          /\ Len(input) < s.content_length
          /\ hist.consumed = hist.hdr_end
          /\ BlankLineEndsAt(hist.hdr_end)
          /\ Len(hist.decs) = Len(hist.reqs) - 1

(* a 407 with a two-byte body was decided on after the body, and the next  *)
(* response on the connection was read from the byte after it              *)
C10_Witness ==
    /\ Len(hist.decs) = 2
    /\ hist.decs[1].http_status = 407
    /\ hist.decs[1].content_length = 2
    /\ hist.decs[1].consumed = hist.decs[1].hdr_end + 2
    /\ hist.decs[2].outcome = "done"
    /\ hist.decs[2].resp_start = hist.decs[1].consumed

LastDecision == hist.decs[Len(hist.decs)]

(* the negotiation stands where the user was asked and gave up *)
AbortedAtPrompt ==
    /\ pn.error = NoError
    /\ ~pn.done
    /\ s.crLine = 0
    /\ Len(hist.decs) >= 1
    /\ LastDecision.outcome = "prompt"
    /\ Len(hist.reqs) = LastDecision.reqs
    /\ hist.reqs[Len(hist.reqs)].to = Len(pn.output)
    /\ s.username = hist.reqs[Len(hist.reqs)].username
    /\ s.password = hist.reqs[Len(hist.reqs)].password

(* C11: when the user cancels a pending prompt the outcome is Aborted:     *)
(* the aborted flag is set with no error and without done, the step in     *)
(* which it is set appends nothing to the output and leaves the stored     *)
(* username and password as they were, and no request follows the one      *)
(* whose 407 led to the prompt.                                            *)
C11_CancelAborts ==
    /\ [](pn.aborted => AbortedAtPrompt)
    /\ [][(pn'.aborted /\ ~pn.aborted)
          => /\ pn'.output = pn.output
             /\ s'.username = s.username
             /\ s'.password = s.password
             /\ pn'.error = NoError
             /\ ~pn'.done]_vars

(* the second prompt was cancelled after the first had been answered: the  *)
(* credentials are still those of the first answer                         *)
C11_Witness ==
    /\ pn.aborted
    /\ Len(hist.answers) = 1
    /\ s.username = Chars("u")
    /\ s.password = Chars("v")
    /\ hist.prompts_made = 2

(* the status line, header lines and blank line of a decided response,   *)
(* as the proxy sent them                                                  *)
HeadLines(d) == CompleteLines(SubSeq(sent, d.resp_start + 1, d.hdr_end))

FieldValue(line, sep) ==
    IF sep.ok THEN get_token(line, sep.header_pos, <<>>) ELSE [ok |-> FALSE]

(* the first value token of a header line named name, if it has one *)
FieldOf(line, name, t1) ==
    IF t1.ok /\ stricmp_eq(t1.token, Chars(name))
    THEN FieldValue(line, get_separator(line, t1.header_pos, ":"))
    ELSE [ok |-> FALSE]

Field(line, name) == FieldOf(line, name, get_token(line, 0, <<>>))

ConnectionWord(f) ==
    IF ~f.ok THEN "none"
    ELSE IF stricmp_eq(f.token, Chars("close")) THEN "close"
    ELSE IF stricmp_eq(f.token, Chars("keep-alive")) THEN "keep-alive"
    ELSE "none"

(* what a header line says about the connection: close, keep-alive, none *)
ConnectionSays(line) == ConnectionWord(Field(line, "Connection"))

(* the last entry from the second on that says something, else none *)
RECURSIVE LastSaid(_, _, _)
LastSaid(vals, k, none) ==
    IF k < 2 THEN none
    ELSE IF vals[k] # none THEN vals[k]
    ELSE LastSaid(vals, k - 1, none)

(* the last Connection header of the lines that says close or keep-alive *)
LastConnection(lines) ==
    LastSaid([i \in 1..Len(lines) |-> ConnectionSays(Chomped(lines[i]))], Len(lines), "none")

ClosedOutcome(i) ==
    /\ hist.decs[i].outcome = "closed"
    /\ i = Len(hist.decs)
    /\ Len(hist.reqs) = hist.decs[i].reqs
    /\ hist.reqs[Len(hist.reqs)].to = Len(pn.output)
    /\ pn.error = [msg |-> MsgClosed, arg |-> <<>>]
    /\ ~pn.done /\ ~pn.aborted
    /\ s.prompts = NoPrompts
    /\ hist.prompts_made = Cardinality(PromptDecisions)

ClosedAsSaid(i, said) ==
    /\ said = "close" => hist.decs[i].connection_close
    /\ said = "keep-alive"
       => (~hist.decs[i].connection_close /\ hist.decs[i].outcome # "closed")
    /\ hist.decs[i].connection_close => ClosedOutcome(i)

(* C12: a 407 decided with the close flag true ends in the error for a     *)
(* closing connection, with no further request and no prompt, even with    *)
(* untried configured credentials and an interactor; the flag is that of   *)
(* the last Connection header saying close or keep-alive, and a 407 whose  *)
(* last such header says keep-alive is never refused for this reason.      *)
C12_ClosingConnectionEndsAuth ==
    \A i \in 1..Len(hist.decs) :
        hist.decs[i].http_status = 407
        => ClosedAsSaid(i, LastConnection(HeadLines(hist.decs[i])))

(* keep-alive then close on the first 407: refused although the            *)
(* configured credentials were never tried and the user could be asked     *)
C12_Witness ==
    /\ Len(hist.decs) = 1
    /\ hist.decs[1].http_status = 407
    /\ hist.decs[1].outcome = "closed"
    /\ ~hist.decs[1].tried_conf
    /\ ConfHasCredentials
    /\ pn.itr
    /\ IsPrefix(Auth407 \o ConnKeep \o ConnClose, sent)

PromptPending == s.prompts # NoPrompts

MaskedFields == { i \in 1..Len(s.prompts.prompts) : ~s.prompts.prompts[i].echo }

UsernameFields ==
    { i \in 1..Len(s.prompts.prompts) : s.prompts.prompts[i] = UsernamePrompt }

(* the prompt was called for: a 407 on an open connection, the configured  *)
(* credentials used up or absent, and someone to ask                       *)
PromptCalledFor ==
    /\ Len(hist.decs) >= 1
    /\ LastDecision.outcome = "prompt"
    /\ LastDecision.http_status = 407
    /\ ~LastDecision.connection_close
    /\ ~s.try_auth_from_conf
    /\ (ConfHasCredentials => Len(hist.reqs) >= 2)
    /\ pn.itr

(* C13: whenever the negotiator prompts, the prompt set has a username     *)
(* field exactly when the stored username is empty, and exactly one        *)
(* password field, which is the only field not echoed and comes after the  *)
(* username field when both are there.                                     *)
C13_PromptFields ==
    PromptPending
    => /\ PromptCalledFor
       /\ UsernameFields = (IF s.username = <<>> THEN {1} ELSE {})
       /\ MaskedFields = {Len(s.prompts.prompts)}
       /\ s.prompts.prompts[Len(s.prompts.prompts)] = PasswordPrompt
       /\ Len(s.prompts.prompts) = (IF s.username = <<>> THEN 2 ELSE 1)
       /\ s.username_prompt_index = (IF s.username = <<>> THEN 0 ELSE -1)
       /\ s.password_prompt_index = Len(s.prompts.prompts) - 1

(* a password-only prompt: the username came from the configuration *)
C13_Witness ==
    /\ PromptPending
    /\ s.username = Chars("u")
    /\ Len(s.prompts.prompts) = 1
    /\ conf.proxy_password = <<>>

(* C14: a prompt set is built once for each 407 decision that prompts.     *)
(* While the prompt is unanswered every further invocation presents the    *)
(* same set, consumes no input and emits nothing; a prompt set exists      *)
(* only from its creation until its answer (or for good, once the user     *)
(* has cancelled it), and is gone when the next request is emitted.        *)
C14_PromptBuiltOnce ==
    /\ [](/\ hist.prompts_made = Cardinality(PromptDecisions)
          /\ PromptPending <=> (s.crLine = 357 \/ pn.aborted)
          /\ PromptPending => (Len(hist.answers) = hist.prompts_made - 1
                                /\ Len(hist.reqs) = LastDecision.reqs
                                /\ hist.reqs[Len(hist.reqs)].to = Len(pn.output))
          /\ ~PromptPending /\ ~pn.aborted => Len(hist.answers) = hist.prompts_made)
    /\ [][(s.crLine = 357 /\ s'.crLine = 357)
          => /\ s' = s
             /\ pn' = pn
             /\ hist' = hist
             /\ input' = input \o SubSeq(sent', Len(sent) + 1, Len(sent'))]_vars
    /\ [][Len(hist'.reqs) > Len(hist.reqs) => ~PromptPending']_vars

(* the second prompt of a negotiation, left unanswered over as many idle   *)
(* invocations as the bound allows                                         *)
C14_Witness ==
    /\ PromptPending
    /\ idle = MaxIdle
    /\ hist.prompts_made = 2
    /\ Len(hist.answers) = 1

(* base64 read back: the byte values a run of 4-character groups stands for *)
Base64Value(c) == IF c = "=" THEN 0 ELSE IndexOf(c, Base64Alphabet) - 1

QuadWord(q) ==
    Base64Value(q[1]) * 262144 + Base64Value(q[2]) * 4096
    + Base64Value(q[3]) * 64 + Base64Value(q[4])

QuadBytes(q, w) ==
    <<w \div 65536>>
    \o (IF q[3] = "=" THEN <<>> ELSE <<(w \div 256) % 256>>)
    \o (IF q[4] = "=" THEN <<>> ELSE <<w % 256>>)

RECURSIVE Base64Decode(_)
Base64Decode(text) ==
    IF Len(text) < 4 THEN <<>>
    ELSE QuadBytes(SubSeq(text, 1, 4), QuadWord(SubSeq(text, 1, 4)))
         \o Base64Decode(SubSeq(text, 5, Len(text)))

Ords(text) == [i \in 1..Len(text) |-> Ord(text[i])]

AuthStart == Len(RequestPrefix) + Len(AuthLiteral)

(* what stands between "Proxy-Authorization: Basic " and the end of the    *)
(* header line in request i                                                *)
AuthPayload(i) == SubSeq(RequestBytes(i), AuthStart + 1, Len(RequestBytes(i)) - 4)

(* request i is the prefix, then the header for user:pass or none, then    *)
(* the blank line                                                          *)
RequestEncodes(i, user, pass) ==
    IF user = <<>> /\ pass = <<>>
    THEN RequestBytes(i) = RequestPrefix \o CRLF
    ELSE /\ Len(RequestBytes(i)) >= AuthStart + 8
         /\ SubSeq(RequestBytes(i), 1, AuthStart) = RequestPrefix \o AuthLiteral
         /\ SubSeq(RequestBytes(i), Len(RequestBytes(i)) - 3, Len(RequestBytes(i)))
            = CRLF \o CRLF
         /\ Len(AuthPayload(i)) % 4 = 0
         /\ Base64Decode(AuthPayload(i)) = Ords(user \o <<":">> \o pass)

AnswerTaken == Len(hist'.answers) = Len(hist.answers) + 1

NewAnswer == hist'.answers[Len(hist'.answers)]

(* the username field is asked for when no username is held (C13) *)
UsernameAsked == s.username = <<>>

(* C15: when the answer to a prompt arrives the password becomes the       *)
(* password returned, the username becomes the username returned if a      *)
(* username field was asked for and is otherwise unchanged, and the        *)
(* request emitted next carries exactly these credentials, base64 encoded, *)
(* in its Proxy-Authorization header.                                      *)
C15_AnswerReplacesCredentials ==
    /\ [](\A i \in 2..Len(hist.reqs) :
             hist.reqs[i].prompts >= 1
             => /\ hist.reqs[i].answers = hist.reqs[i].prompts
                /\ RequestEncodes(i, hist.reqs[i].username, hist.reqs[i].password))
    /\ [][AnswerTaken
          => /\ s'.password = NewAnswer[IF UsernameAsked THEN 2 ELSE 1]
             /\ s'.username = (IF UsernameAsked THEN NewAnswer[1] ELSE s.username)
             /\ Len(hist'.reqs) = Len(hist.reqs) + 1
             /\ hist'.reqs[Len(hist'.reqs)].username = s'.username
             /\ hist'.reqs[Len(hist'.reqs)].password = s'.password
             /\ hist'.reqs[Len(hist'.reqs)].from = Len(pn.output)
             /\ hist'.reqs[Len(hist'.reqs)].to = Len(pn'.output)
             /\ hist'.reqs[Len(hist'.reqs)].prompts = hist'.prompts_made]_vars

(* the configured password was rejected and the user gave another: the     *)
(* third request carries the configured username with the new password     *)
C15_Witness ==
    /\ Len(hist.reqs) = 3
    /\ conf.proxy_username = Chars("u")
    /\ conf.proxy_password = Chars("p")
    /\ hist.reqs[3].username = Chars("u")
    /\ hist.reqs[3].password = Chars("v")
    /\ RequestEncodes(3, Chars("u"), Chars("v"))
    /\ AuthPayload(3) = Chars("dTp2")

LengthOf(f) == IF f.ok THEN strtoumax(f.token) ELSE -1

LengthSays(line) == LengthOf(Field(line, "Content-Length"))

ZeroIfNone(n) == IF n < 0 THEN 0 ELSE n

(* the value of the last Content-Length header of the lines, 0 if none *)
LastLength(lines) ==
    ZeroIfNone(LastSaid([i \in 1..Len(lines) |-> LengthSays(Chomped(lines[i]))],
                        Len(lines), -1))

(* the part of the current response that has been read and dealt with:     *)
(* all that was consumed of it but the header line being accumulated       *)
Processed == SubSeq(sent, hist.resp_start + 1, hist.consumed - Len(s.header))

(* a call that never returns is inside the read_line of line 246 *)
InHeaders == s.crLine = 246 \/ hist.hung

(* the status line, then the headers one by one in the order sent, each    *)
(* taking effect before the next is read                                   *)
HeadersInOrder(lines) ==
    /\ Len(lines) = 1 + hist.nhdr
    /\ s.response = Chomped(lines[1])
    /\ Processed # <<>> /\ Processed[Len(Processed)] = LF
    /\ s.header = SubSeq(sent, hist.consumed - Len(s.header) + 1, hist.consumed)
    /\ LastConnection(lines) # "none"
       => s.connection_close = (LastConnection(lines) = "close")
    /\ s.content_length = LastLength(lines)
    /\ Len(hist.decs) = Len(hist.reqs) - 1

ResponsesInOrder ==
    \A i \in 1..Len(hist.decs) :
        /\ hist.decs[i].reqs = i
        /\ hist.decs[i].resp_start = (IF i = 1 THEN 0 ELSE hist.decs[i - 1].consumed)
        /\ hist.decs[i].resp_start < hist.decs[i].hdr_end
        /\ hist.decs[i].consumed = hist.decs[i].hdr_end + hist.decs[i].content_length
        /\ hist.decs[i].response = Chomped(HeadLines(hist.decs[i])[1])
        /\ Len(HeadLines(hist.decs[i])) = 1 + hist.decs[i].nhdr
        /\ LastConnection(HeadLines(hist.decs[i])) # "none"
           => hist.decs[i].connection_close
              = (LastConnection(HeadLines(hist.decs[i])) = "close")
        /\ hist.decs[i].content_length = LastLength(HeadLines(hist.decs[i]))

(* C16: requests and responses alternate.  Nothing is consumed before the  *)
(* first request is in the output; the requests emitted are as many as     *)
(* the responses decided on, or one more; within a response the status     *)
(* line is parsed first, the headers take effect in the order they         *)
(* arrive and the body is discarded before the decision; the output grows  *)
(* only by a whole request, at the start, at a decision or when a prompt   *)
(* is answered, never while a response is being parsed.                    *)
C16_RequestsAndResponsesAlternate ==
    /\ [](/\ hist.reqs = <<>> => (hist.consumed = 0 /\ pn.output = <<>>)
          /\ Len(hist.reqs) - Len(hist.decs) \in {0, 1}
          /\ RequestsTileOutput
          /\ ResponsesInOrder
          /\ (s.crLine = 223 /\ ~hist.hung)
             => (hist.nhdr = 0 /\ Len(hist.decs) = Len(hist.reqs) - 1
                                /\ s.response = SubSeq(sent, hist.resp_start + 1, hist.consumed))
          /\ InHeaders => HeadersInOrder(CompleteLines(Processed))
          /\ (s.crLine = 295 /\ ~hist.hung)
             => (hist.consumed = hist.hdr_end /\ Len(hist.decs) = Len(hist.reqs) - 1))
    /\ [][pn'.output # pn.output
          => /\ Len(hist'.reqs) = Len(hist.reqs) + 1
             /\ \/ hist.reqs = <<>>
                \/ Len(hist'.decs) = Len(hist.decs) + 1
                \/ AnswerTaken
             /\ s'.crLine = 213]_vars
    /\ [][(s.crLine \in {223, 246, 295} /\ s'.crLine \in {223, 246, 295}
           /\ Len(hist'.decs) = Len(hist.decs))
          => pn'.output = pn.output]_vars

(* in the header section of the third response, two headers in, with the   *)
(* first two responses decided on and three requests out                   *)
C16_Witness ==
    /\ s.crLine = 246
    /\ Len(hist.reqs) = 3
    /\ Len(hist.decs) = 2
    /\ hist.decs[1].nhdr >= 3
    /\ Len(s.response) > 0
    /\ hist.resp_start = hist.decs[2].consumed

(* the flag and the length are those the lines of this response give:     *)
(* the last Content-Length or 0, the last Connection value or, for an      *)
(* HTTP/1.1 status line without one, open                                  *)
OwnFlags(status_line, said, close, length_said, length) ==
    /\ length = length_said
    /\ said # "none" => close = (said = "close")
    /\ (said = "none" /\ IsPrefix(Chars("HTTP/1.1 "), status_line)) => ~close

OwnHeadersOnly(lines, close, length) ==
    OwnFlags(lines[1], LastConnection(lines), close, LastLength(lines), length)

(* C17: the close flag and the content length of a response come from     *)
(* its own status line and headers alone.  Both are reset when a round     *)
(* trip starts, so a Content-Length or Connection header of an earlier     *)
(* 407 has no effect on the body discarded for, or the closing of, a       *)
(* later response without those headers.                                   *)
C17_FlagsResetEachRoundTrip ==
    /\ (s.crLine = 223 /\ ~hist.hung) => (s.content_length = 0 /\ ~s.connection_close)
    /\ InHeaders
       => OwnHeadersOnly(CompleteLines(Processed), s.connection_close, s.content_length)
    /\ (s.crLine = 295 /\ ~hist.hung)
       => OwnHeadersOnly(CompleteLines(SubSeq(sent, hist.resp_start + 1, hist.hdr_end)),
                         s.connection_close, s.content_length)
    /\ \A i \in 1..Len(hist.decs) :
          /\ OwnHeadersOnly(HeadLines(hist.decs[i]), hist.decs[i].connection_close,
                            hist.decs[i].content_length)
          /\ \A j \in 1..Len(hist.decs) :
                HeadLines(hist.decs[i]) = HeadLines(hist.decs[j])
                => /\ hist.decs[i].content_length = hist.decs[j].content_length
                   /\ hist.decs[i].connection_close = hist.decs[j].connection_close

(* a 407 with Content-Length: 2 and Connection: keep-alive, then a         *)
(* response with neither header: no body byte is taken for the second      *)
C17_Witness ==
    /\ Len(hist.decs) = 2
    /\ IsPrefix(Auth407 \o ContentLength2 \o ConnKeep, sent)
    /\ hist.decs[1].content_length = 2
    /\ hist.decs[2].content_length = 0
    /\ hist.decs[2].consumed = hist.decs[2].hdr_end
    /\ Len(HeadLines(hist.decs[2])) = 2

SkippableAfter(line, t1) ==
    \/ ~t1.ok
    \/ ~get_separator(line, t1.header_pos, ":").ok
    \/ HeaderKind(t1.token) = "HDR_UNKNOWN"

(* a non-empty header line with no token to start with, no ':' after its   *)
(* name, or a name that is none of the three known                         *)
Skippable(line) == line # <<>> /\ SkippableAfter(line, get_token(line, 0, <<>>))

SkippedLines ==
    { Chars("X: y"), Chars("Connection close"), Chars(": close"), Chars("="),
      Chars("Content-Length 2"), Chars("Proxy-Authenticate Digest"),
      Chars("Connection"), Chars(" x"), Chars("Content-Length=2: 2") }

(* the header loop body applied to the line in the present state *)
AfterHeader(line) == HeaderEffect([Machine(input, Pending) EXCEPT !.s.header = line])

(* nothing but the token and the position changed, and the test of line   *)
(* 292 sends the loop round again                                          *)
LeftAlone(r) ==
    /\ r.s.content_length = s.content_length
    /\ r.s.connection_close = s.connection_close
    /\ r.pn = pn
    /\ r.input = input
    /\ r.s.crLine = s.crLine
    /\ Len(r.s.header) > 0

LinesBefore(lines) == SubSeq(lines, 1, Len(lines) - 1)

(* the line last dealt with was skipped: reading goes on, with the flag    *)
(* and the length the lines before it gave                                 *)
SkippedAndOn(lines) ==
    (Len(lines) >= 2 /\ Skippable(Chomped(lines[Len(lines)])))
    => /\ pn.error = NoError /\ ~pn.done /\ ~pn.aborted
       /\ s.content_length = LastLength(LinesBefore(lines))
       /\ LastConnection(LinesBefore(lines)) # "none"
          => s.connection_close = (LastConnection(LinesBefore(lines)) = "close")
       /\ LastConnection(lines) = LastConnection(LinesBefore(lines))

SkippedNeverEnds(lines) ==
    \A k \in 2..Len(lines) :
        Skippable(Chomped(lines[k]))
        => /\ Len(lines[Len(lines)]) <= 2
           /\ Len(lines) > k

(* C18: a non-empty header line with no parsable first token, with no ':'  *)
(* after its name, or naming a field other than Connection,                *)
(* Content-Length and Proxy-Authenticate is skipped: it ends nothing,      *)
(* leaves the content length and the close flag as they were, and the      *)
(* next line is read, until the empty line.                                *)
C18_UnparsableHeaderSkipped ==
    /\ \A line \in SkippedLines :
          Skippable(line) /\ (~Terminal => LeftAlone(AfterHeader(line)))
    /\ InHeaders => SkippedAndOn(CompleteLines(Processed))
    /\ \A i \in 1..Len(hist.decs) : SkippedNeverEnds(HeadLines(hist.decs[i]))

(* a 407 with the headers "X: y", Digest and close was read past "X: y":   *)
(* the next header was reached and refused                                 *)
C18_Witness ==
    /\ IsPrefix(Auth407 \o Line("X: y") \o AuthDigest, sent)
    /\ pn.error.msg = MsgUnsupported
    /\ hist.nhdr = 2

AllDigits(str, from, to) == from <= to /\ \A i \in from..to : IsDigit(str[i])

(* HTTP/<major>.<minor> <3-digit-status>, then nothing or a reason phrase *)
StatusAt(line, b) ==
    /\ Len(line) >= b + 4
    /\ line[b + 1] = SP
    /\ AllDigits(line, b + 2, b + 4)
    /\ Len(line) = b + 4 \/ line[b + 5] = SP

MatchesStatusLine(line) ==
    /\ IsPrefix(HttpSlash, line)
    /\ \E a \in 6..Len(line), b \in 8..Len(line) :
          /\ AllDigits(line, 6, a)
          /\ a + 2 <= b
          /\ line[a + 1] = "."
          /\ AllDigits(line, a + 2, b)
          /\ StatusAt(line, b)

(* the response being read has its status line in, and it is not one *)
BadStatusLineRead(lines) == Len(lines) >= 1 /\ ~MatchesStatusLine(Chomped(lines[1]))

RefusedAtStatusLine(lines) ==
    /\ pn.error = [msg |-> MsgMalformed, arg |-> <<>>]
    /\ ~pn.done /\ ~pn.aborted
    /\ hist.nhdr = 0
    /\ hist.consumed = hist.resp_start + Len(lines[1])
    /\ Len(hist.decs) = Len(hist.reqs) - 1
    /\ hist.reqs[Len(hist.reqs)].to = Len(pn.output)

(* C19: a status line that is not HTTP/<major>.<minor> <3-digit-status>    *)
(* (status missing, not a number, or not exactly three digits) gives the   *)
(* malformed-response error: no header is read, no request follows, and    *)
(* no decision by status code is made for it.                              *)
C19_MalformedStatusLineRejected ==
    /\ \A i \in 1..Len(hist.decs) : MatchesStatusLine(hist.decs[i].response)
    /\ (Len(hist.decs) < Len(hist.reqs) /\ BadStatusLineRead(ConsumedLines))
       => RefusedAtStatusLine(ConsumedLines)

(***************************************************************************)
(* A caller that goes on calling.  Nothing in proxy_http_process_queue     *)
(* looks at done, aborted or error on entry (lines 153-157), and crStopV   *)
(* and crFinishV leave crLine at 0, so a call made after an outcome was    *)
(* reported enters at crBegin's case 0 and runs from line 162.             *)
(***************************************************************************)
MaxRequests == 5

Reinvoke(pr) ==
    /\ Terminal
    /\ ~hist.hung
    /\ Len(hist.reqs) < MaxRequests
    /\ Invoked(ProcessQueue(Machine(input, pr)))
    /\ UNCHANGED <<conf, sent>>

NextAnyCaller ==
    \/ Next
    \/ \E pr \in SeatChoices(input) : Reinvoke(pr)

SpecAnyCaller == Init /\ [][NextAnyCaller]_vars

OneOutcomeAtMost ==
    Cardinality({ o \in {"done", "aborted", "error"} :
                     \/ o = "done" /\ pn.done
                     \/ o = "aborted" /\ pn.aborted
                     \/ o = "error" /\ pn.error # NoError }) <= 1

(* C20: the outcomes are exclusive and final: at most one of done,         *)
(* aborted and error is ever set, and once one is set an invocation        *)
(* appends nothing to the output, consumes no input and changes neither    *)
(* the stored username and password nor the outcome.                       *)
C20_TerminalIsAbsorbing ==
    /\ []OneOutcomeAtMost
    /\ [][Terminal
          => /\ pn'.output = pn.output
             /\ input' = input
             /\ hist'.consumed = hist.consumed
             /\ s'.username = s.username
             /\ s'.password = s.password
             /\ pn'.done = pn.done
             /\ pn'.aborted = pn.aborted
             /\ pn'.error = pn.error]_vars

====
